---------------------------- MODULE Spec2Model ----------------------------
(***************************************************************************)
(* Model of lib/timeutils.c (util-linux): parse_sec, parse_timestamp and   *)
(* format_iso_time.                                                        *)
(*                                                                         *)
(* Text is a sequence of one-character strings.  A usec_t / long long is   *)
(* a tuple of limbs in base 10^4, least significant first, because the     *)
(* values in play (microseconds, 64-bit wrap-around) exceed the 32-bit     *)
(* integers of TLC; U64 reduces modulo 2^64.                               *)
(* A time_t is a record [day, sod] standing for day*86400 + sod with       *)
(* 0 <= sod < 86400.  The local time zone is a fixed zero offset.          *)
(***************************************************************************)
EXTENDS Integers, Sequences, FiniteSets, TLC

(***************************************************************************)
(* Bounds of the model.                                                    *)
(***************************************************************************)
MaxTerms == 2
MaxBufsz == 34
MaxDaySamples == 12

(***************************************************************************)
(* errno values returned (negated) by the parsers.                         *)
(***************************************************************************)
EINVAL == 22
ERANGE == 34

(***************************************************************************)
(* Wide unsigned arithmetic: a number is a tuple of NLimbs limbs in base   *)
(* LimbBase, least significant first.  Carries are computed by lookahead   *)
(* so that sums and differences need no recursion.                         *)
(***************************************************************************)
LimbBase == 10^4
NLimbs == 2 * 5

Limbs == 1..NLimbs

\* the element of a one-element set.  The({e : v \in {x}}) is e with v
\* standing for the value of x: a local variable that is computed once
The(S) == CHOOSE r \in S : TRUE

Zero == [i \in Limbs |-> 0]

\* n is a machine integer, 0 <= n < 2^31
FromNatV(n) ==
    [i \in Limbs |-> CASE i = 1 -> n % LimbBase
                       [] i = 2 -> (n \div LimbBase) % LimbBase
                       [] i = 3 -> n \div (LimbBase * LimbBase)
                       [] OTHER -> 0]

FromNat(n) == The({FromNatV(v) : v \in {n}})

\* value of a sequence of at most 4*NLimbs decimal digits (numbers 0..9),
\* most significant first
FromDigitsV(ds) ==
    LET D(pos) == IF pos >= 1 THEN ds[pos] ELSE 0
        lo(j)  == Len(ds) - 4 * (j - 1)
    IN  [j \in Limbs |-> D(lo(j)) + 10 * D(lo(j) - 1) + 100 * D(lo(j) - 2)
                             + 1000 * D(lo(j) - 3)]

FromDigits(ds) == The({FromDigitsV(v) : v \in {ds}})

AddV(a, b) ==
    LET carry(i) ==
            IF \E j \in 1..(i - 1) :
                   /\ a[j] + b[j] >= LimbBase
                   /\ \A k \in (j + 1)..(i - 1) : a[k] + b[k] = LimbBase - 1
            THEN 1 ELSE 0
    IN  [i \in Limbs |-> (a[i] + b[i] + carry(i)) % LimbBase]

Add(a, b) == The({AddV(x, y) : x \in {a}, y \in {b}})

SubV(a, b) ==
    LET borrow(i) ==
            IF \E j \in 1..(i - 1) :
                   /\ a[j] < b[j]
                   /\ \A k \in (j + 1)..(i - 1) : a[k] = b[k]
            THEN 1 ELSE 0
    IN  [i \in Limbs |-> (a[i] - b[i] - borrow(i) + LimbBase) % LimbBase]

\* a - b, for b <= a
Sub(a, b) == The({SubV(x, y) : x \in {a}, y \in {b}})

LessV(a, b) ==
    \E i \in Limbs : a[i] < b[i] /\ \A j \in (i + 1)..NLimbs : a[j] = b[j]

Less(a, b) == The({LessV(x, y) : x \in {a}, y \in {b}})

LessEq(a, b) == ~Less(b, a)

\* carry propagation over column sums, least significant first
RECURSIVE Normalize(_, _, _)
Normalize(cols, i, c) ==
    IF i > NLimbs THEN <<>>
    ELSE LET s == cols[i] + c
         IN  <<s % LimbBase>> \o Normalize(cols, i + 1, s \div LimbBase)

RECURSIVE SumProd(_, _, _, _)
SumProd(a, b, k, i) ==
    IF i > k THEN 0 ELSE a[i] * b[k + 1 - i] + SumProd(a, b, k, i + 1)

MulCols(a, b) == [k \in Limbs |-> SumProd(a, b, k, 1)]

\* a * b, exact for a, b < 2^64
Mul(a, b) ==
    The({Normalize(cols, 1, 0) :
            cols \in {The({MulCols(x, y) : x \in {a}, y \in {b}})}})

MulSmallCols(a, m) == [k \in Limbs |-> a[k] * m]

\* a * m for a machine integer 0 <= m <= 200000
MulSmall(a, m) ==
    The({Normalize(cols, 1, 0) :
            cols \in {The({MulSmallCols(x, y) : x \in {a}, y \in {m}})}})

\* LimbBase^k modulo d
RECURSIVE PowMod(_, _)
PowMod(k, d) == IF k = 0 THEN 1 % d ELSE (PowMod(k - 1, d) * (LimbBase % d)) % d

\* (a[j] * LimbBase^(j-i-1) + ... + a[NLimbs] * LimbBase^(NLimbs-i-1)) modulo d:
\* the remainder carried into limb i by a long division from the top
RECURSIVE RemAbove(_, _, _, _)
RemAbove(a, d, i, j) ==
    IF j > NLimbs THEN 0
    ELSE ((a[j] % d) * PowMod(j - i - 1, d) + RemAbove(a, d, i, j + 1)) % d

DivSmallV(a, d) ==
    [i \in Limbs |-> (RemAbove(a, d, i, i + 1) * LimbBase + a[i]) \div d]

\* floor(a / d) for a machine integer 1 <= d <= 2^15
DivSmall(a, d) == The({DivSmallV(x, y) : x \in {a}, y \in {d}})

ShiftDownV(a, k) == [i \in Limbs |-> IF i + k <= NLimbs THEN a[i + k] ELSE 0]

\* floor(a / LimbBase^k)
ShiftDown(a, k) == The({ShiftDownV(x, y) : x \in {a}, y \in {k}})

Two64 == FromDigits(<<1, 8, 4, 4, 6, 7, 4, 4, 0, 7, 3, 7, 0, 9, 5, 5, 1, 6, 1, 6>>)

\* 2^63 - 1
LLONG_MAX == FromDigits(<<9, 2, 2, 3, 3, 7, 2, 0, 3, 6, 8, 5, 4, 7, 7, 5, 8, 0, 7>>)

FitsU64(a) == Less(a, Two64)

\* floor(a / 2^64)
Div2p64(a) ==
    DivSmall(DivSmall(DivSmall(DivSmall(DivSmall(DivSmall(DivSmall(DivSmall(
        a, 2^8), 2^8), 2^8), 2^8), 2^8), 2^8), 2^8), 2^8)

U64V(a) == IF FitsU64(a) THEN a ELSE Sub(a, Mul(Div2p64(a), Two64))

\* reduction modulo 2^64: what a usec_t keeps of a sum or a product
U64(a) == The({U64V(x) : x \in {a}})

(***************************************************************************)
(* Text: sequences of one-character strings.                               *)
(***************************************************************************)
DigitChars == <<"0", "1", "2", "3", "4", "5", "6", "7", "8", "9">>

DigitSet == {DigitChars[i] : i \in 1..10}

IsDigit(c) == c \in DigitSet

DigitVal(c) == (CHOOSE i \in 1..10 : DigitChars[i] = c) - 1

\* #define WHITESPACE " \t\n\r"
WHITESPACE == {" ", "\t", "\n", "\r"}

\* isspace() in the C locale (the vertical tab is not an input of the model)
SpaceChars == {" ", "\t", "\n", "\r", "\f"}

IsSpace(c) == c \in SpaceChars

Min(S) == CHOOSE x \in S : \A y \in S : x <= y

Drop(s, n) == SubSeq(s, n + 1, Len(s))

Take(s, n) == SubSeq(s, 1, n)

\* length of the longest prefix of s all of whose characters are in C
Span(s, C) ==
    The({IF stop = {} THEN Len(s) ELSE Min(stop) - 1 :
            stop \in {{i \in 1..Len(s) : s[i] \notin C}}})

\* strspn(s, WHITESPACE)
strspn(s) == Span(s, WHITESPACE)

\* s += strspn(s, WHITESPACE)
SkipWhitespace(s) == The({Drop(v, strspn(v)) : v \in {s}})

startswith(s, prefix) ==
    /\ Len(prefix) <= Len(s)
    /\ Take(s, Len(prefix)) = prefix

endswith(s, postfix) ==
    /\ Len(postfix) <= Len(s)
    /\ Drop(s, Len(s) - Len(postfix)) = postfix

UpperChars ==
    <<"A", "B", "C", "D", "E", "F", "G", "H", "I", "J", "K", "L", "M",
      "N", "O", "P", "Q", "R", "S", "T", "U", "V", "W", "X", "Y", "Z">>

LowerChars ==
    <<"a", "b", "c", "d", "e", "f", "g", "h", "i", "j", "k", "l", "m",
      "n", "o", "p", "q", "r", "s", "t", "u", "v", "w", "x", "y", "z">>

ToLower(c) ==
    IF \E i \in 1..26 : UpperChars[i] = c
    THEN LowerChars[CHOOSE i \in 1..26 : UpperChars[i] = c]
    ELSE c

startswith_no_case(s, prefix) ==
    /\ Len(prefix) <= Len(s)
    /\ \A i \in 1..Len(prefix) : ToLower(s[i]) = ToLower(prefix[i])

(***************************************************************************)
(* strtoll(p, &e, 10): optional white space, optional sign, decimal digits.*)
(* val is the magnitude, neg the sign, consumed is e - p (0 when nothing   *)
(* was converted), errno is 0 or ERANGE.                                   *)
(***************************************************************************)
DigitSeq(s) == [i \in 1..Len(s) |-> DigitVal(s[i])]

\* the digits converted: sig is the digit string without leading zeros
strtoll_value(neg, consumed, sig) ==
    The({IF Len(sig) > 19 \/ Less(limit, val)
         THEN [val |-> limit, neg |-> neg, consumed |-> consumed, errno |-> ERANGE]
         ELSE [val |-> val, neg |-> neg, consumed |-> consumed, errno |-> 0] :
            val \in {FromDigits(DigitSeq(sig))},
            limit \in {IF neg THEN Add(LLONG_MAX, FromNat(1)) ELSE LLONG_MAX}})

\* the digits at p + skip, after the white space and the sign
strtoll_digits(p, skip, neg) ==
    The({IF nd = 0
         THEN [val |-> Zero, neg |-> FALSE, consumed |-> 0, errno |-> 0]
         ELSE strtoll_value(neg, skip + nd,
                  SubSeq(p, skip + 1 + Span(SubSeq(p, skip + 1, skip + nd), {"0"}),
                         skip + nd)) :
            nd \in {Span(Drop(p, skip), DigitSet)}})

strtoll(p) ==
    The({strtoll_digits(p,
             ws + (IF ws < Len(p) /\ p[ws + 1] \in {"+", "-"} THEN 1 ELSE 0),
             ws < Len(p) /\ p[ws + 1] = "-") :
            ws \in {Span(p, SpaceChars)}})

\* l < 0
IsNegative(n) == n.neg /\ n.val # Zero

(***************************************************************************)
(* Microseconds per unit (timeutils.h).                                    *)
(***************************************************************************)
USEC_PER_USEC   == FromNat(1)
USEC_PER_MSEC   == FromNat(1000)
USEC_PER_SEC    == FromNat(1000000)
USEC_PER_MINUTE == MulSmall(USEC_PER_SEC, 60)
USEC_PER_HOUR   == MulSmall(USEC_PER_MINUTE, 60)
USEC_PER_DAY    == MulSmall(USEC_PER_HOUR, 24)
USEC_PER_WEEK   == MulSmall(USEC_PER_DAY, 7)
USEC_PER_MONTH  == Mul(USEC_PER_SEC, FromNat(2629800))
USEC_PER_YEAR   == Mul(USEC_PER_SEC, FromNat(31557600))

(***************************************************************************)
(* parse_sec                                                               *)
(***************************************************************************)
table == <<
    [suffix |-> <<"s", "e", "c", "o", "n", "d", "s">>,         usec |-> USEC_PER_SEC],
    [suffix |-> <<"s", "e", "c", "o", "n", "d">>,              usec |-> USEC_PER_SEC],
    [suffix |-> <<"s", "e", "c">>,                             usec |-> USEC_PER_SEC],
    [suffix |-> <<"s">>,                                       usec |-> USEC_PER_SEC],
    [suffix |-> <<"m", "i", "n", "u", "t", "e", "s">>,         usec |-> USEC_PER_MINUTE],
    [suffix |-> <<"m", "i", "n", "u", "t", "e">>,              usec |-> USEC_PER_MINUTE],
    [suffix |-> <<"m", "i", "n">>,                             usec |-> USEC_PER_MINUTE],
    [suffix |-> <<"m", "o", "n", "t", "h", "s">>,              usec |-> USEC_PER_MONTH],
    [suffix |-> <<"m", "o", "n", "t", "h">>,                   usec |-> USEC_PER_MONTH],
    [suffix |-> <<"m", "s", "e", "c">>,                        usec |-> USEC_PER_MSEC],
    [suffix |-> <<"m", "s">>,                                  usec |-> USEC_PER_MSEC],
    [suffix |-> <<"m">>,                                       usec |-> USEC_PER_MINUTE],
    [suffix |-> <<"h", "o", "u", "r", "s">>,                   usec |-> USEC_PER_HOUR],
    [suffix |-> <<"h", "o", "u", "r">>,                        usec |-> USEC_PER_HOUR],
    [suffix |-> <<"h", "r">>,                                  usec |-> USEC_PER_HOUR],
    [suffix |-> <<"h">>,                                       usec |-> USEC_PER_HOUR],
    [suffix |-> <<"d", "a", "y", "s">>,                        usec |-> USEC_PER_DAY],
    [suffix |-> <<"d", "a", "y">>,                             usec |-> USEC_PER_DAY],
    [suffix |-> <<"d">>,                                       usec |-> USEC_PER_DAY],
    [suffix |-> <<"w", "e", "e", "k", "s">>,                   usec |-> USEC_PER_WEEK],
    [suffix |-> <<"w", "e", "e", "k">>,                        usec |-> USEC_PER_WEEK],
    [suffix |-> <<"w">>,                                       usec |-> USEC_PER_WEEK],
    [suffix |-> <<"y", "e", "a", "r", "s">>,                   usec |-> USEC_PER_YEAR],
    [suffix |-> <<"y", "e", "a", "r">>,                        usec |-> USEC_PER_YEAR],
    [suffix |-> <<"y">>,                                       usec |-> USEC_PER_YEAR],
    [suffix |-> <<"u", "s", "e", "c">>,                        usec |-> USEC_PER_USEC],
    [suffix |-> <<"u", "s">>,                                  usec |-> USEC_PER_USEC],
    [suffix |-> <<>>,                                          usec |-> USEC_PER_SEC]
>>

\* a variant of FirstSuffix that takes the last matching row instead of the
\* first
LastSuffix(e) ==
    The({IF hits = {} THEN 0 ELSE CHOOSE i \in hits : \A j \in hits : j <= i :
            hits \in {{i \in 1..Len(table) : startswith(e, table[i].suffix)}}})

\* for (i = 0; i < ARRAY_SIZE(table); i++) if (startswith(e, table[i].suffix)):
\* the first matching row, 0 when the loop runs off the end
FirstSuffix(e) ==
    The({IF hits = {} THEN 0 ELSE Min(hits) :
            hits \in {{i \in 1..Len(table) : startswith(e, table[i].suffix)}}})

\* for (; n > 0; n--) k /= 10;   n floor divisions by ten are one floor
\* division by 10^n
DivTen(k, n) ==
    IF n >= 4 * NLimbs THEN Zero
    ELSE DivSmall(ShiftDown(k, n \div 4), 10^(n % 4))

\* r += (usec_t) l * table[i].usec + k, with k = (usec_t) z * table[i].usec
\* divided n times by ten; every step is a usec_t operation (mod 2^64)
Accumulate(r, l, z, n, unit) ==
    U64(Add(r, U64(Add(U64(Mul(l, unit)), DivTen(U64(Mul(z, unit)), n)))))

\* a variant of Fail that stores zero through the output pointer
FailStoringZero(errno, usec) == [rc |-> 0 - errno, usec |-> Zero]

\* an error return: *usec is not assigned
Fail(errno, usec) == [rc |-> 0 - errno, usec |-> usec]

RECURSIVE parse_sec_loop(_, _, _, _)

\* e += strspn(e, WHITESPACE) has been done: the unit loop, the sum and the
\* next pass.  l and z are the integer and the fraction, n the length of
\* the fraction
parse_sec_unit(e, l, z, n, r, usec) ==
    The({IF i = 0 THEN Fail(EINVAL, usec)
         ELSE parse_sec_loop(Drop(e, Len(table[i].suffix)),
                             Accumulate(r, l, z, n, table[i].usec), TRUE, usec) :
            i \in {FirstSuffix(e)}})

\* if (*e == '.'): b is the text after the dot
parse_sec_fraction(b, l, r, usec) ==
    The({IF z.errno > 0 THEN Fail(z.errno, usec)
         ELSE IF IsNegative(z) THEN Fail(ERANGE, usec)
         ELSE IF z.consumed = 0 THEN Fail(EINVAL, usec)
         ELSE The({parse_sec_unit(e, l.val, z.val, z.consumed, r, usec) :
                      e \in {SkipWhitespace(Drop(b, z.consumed))}}) :
            z \in {strtoll(b)}})

\* one pass of the for (;;) loop; usec is the caller's *usec before the call
parse_sec_loop(p0, r0, something, usec) ==
    The({IF p = <<>>
         THEN (IF ~something THEN Fail(EINVAL, usec) ELSE [rc |-> 0, usec |-> r])
         ELSE The({IF l.errno > 0 THEN Fail(l.errno, usec)
                   ELSE IF IsNegative(l) THEN Fail(ERANGE, usec)
                   ELSE IF l.consumed < Len(p) /\ p[l.consumed + 1] = "."
                   THEN parse_sec_fraction(Drop(p, l.consumed + 1), l, r, usec)
                   ELSE IF l.consumed = 0 THEN Fail(EINVAL, usec)
                   ELSE The({parse_sec_unit(e, l.val, Zero, 0, r, usec) :
                                e \in {SkipWhitespace(Drop(p, l.consumed))}}) :
                      l \in {strtoll(p)}}) :
            p \in {SkipWhitespace(p0)}, r \in {r0}})

parse_sec(t, usec) == parse_sec_loop(t, Zero, FALSE, usec)


(***************************************************************************)
(* Calendar: what the C library's localtime_r, mktime and strptime do, for *)
(* a local zone at a fixed zero offset from UTC (no daylight saving).      *)
(* A time_t x is [day |-> x div 86400, sod |-> x mod 86400].               *)
(***************************************************************************)
SecsPerDay == 24 * 3600

\* days since 1970-01-01 of the proleptic Gregorian date y-m-d (m in 1..12)
days_from_civil(y0, m, d) ==
    LET y   == IF m <= 2 THEN y0 - 1 ELSE y0
        era == y \div 400
        yoe == y - era * 400
        mp  == IF m > 2 THEN m - 3 ELSE m + 9
        doy == (153 * mp + 2) \div 5 + d - 1
        doe == yoe * 365 + yoe \div 4 - yoe \div 100 + doy
    IN  era * 146097 + doe - 719468

civil_from_days(z0) ==
    LET z   == z0 + 719468
        era == z \div 146097
        doe == z - era * 146097
        yoe == (doe - doe \div 1460 + doe \div 36524 - doe \div 146096) \div 365
        doy == doe - (365 * yoe + yoe \div 4 - yoe \div 100)
        mp  == (5 * doy + 2) \div 153
        d   == doy - (153 * mp + 2) \div 5 + 1
        m   == IF mp < 10 THEN mp + 3 ELSE mp - 9
        y   == yoe + era * 400 + (IF m <= 2 THEN 1 ELSE 0)
    IN  [y |-> y, m |-> m, d |-> d]

\* 1970-01-01 was a Thursday
Weekday(day) == (day + 4) % 7

TimeT(day, sod) == [day |-> day, sod |-> sod]

\* localtime_r(&x, &tm)
localtime_r(x) ==
    The({[tm_year |-> c.y - 1900, tm_mon |-> c.m - 1, tm_mday |-> c.d,
          tm_hour |-> x.sod \div 3600, tm_min |-> (x.sod \div 60) % 60,
          tm_sec |-> x.sod % 60, tm_wday |-> Weekday(x.day), tm_isdst |-> 0] :
            c \in {civil_from_days(x.day)}})

\* x = mktime(&tm): the instant of the possibly out-of-range fields
mktime_x(tm) ==
    LET mdays == days_from_civil(tm.tm_year + 1900 + tm.tm_mon \div 12,
                                 (tm.tm_mon % 12) + 1, 1) + tm.tm_mday - 1
        secs  == tm.tm_hour * 3600 + tm.tm_min * 60 + tm.tm_sec
    IN  TimeT(mdays + secs \div SecsPerDay, secs % SecsPerDay)

\* mktime normalises *tm in place (tm_wday included)
mktime_tm(tm) == localtime_r(mktime_x(tm))

\* (time_t) -1
IsMinusOne(x) == x.day = -1 /\ x.sod = SecsPerDay - 1

\* (usec_t) x: a negative time_t converts modulo 2^64
ToUsecT(x) ==
    IF x.day >= 0
    THEN Add(Mul(FromNat(x.day), FromNat(SecsPerDay)), FromNat(x.sod))
    ELSE Sub(Two64, Sub(Mul(FromNat(0 - x.day), FromNat(SecsPerDay)),
                        FromNat(x.sod)))

(***************************************************************************)
(* strptime(t, fmt, &tm) for the conversions the grammars use.  A format   *)
(* is a sequence of items: " " (any run of white space in the input),      *)
(* a conversion "%y" "%Y" "%m" "%d" "%H" "%M" "%S", or a literal character.*)
(* The result is [ok, rest, tm]: rest is the text from the returned        *)
(* pointer on.                                                             *)
(***************************************************************************)
\* get_number(from, to, n): skip blanks, then at most n digits while the
\* value can still grow within `to`
RECURSIVE MoreDigits(_, _, _, _, _)
MoreDigits(s, pos, val, left, to) ==
    IF left > 0 /\ val * 10 <= to /\ pos <= Len(s) /\ IsDigit(s[pos])
    THEN MoreDigits(s, pos + 1, val * 10 + DigitVal(s[pos]), left - 1, to)
    ELSE [val |-> val, pos |-> pos]

get_number(s, from, to, n) ==
    The({IF q = <<>> \/ ~IsDigit(q[1])
         THEN [ok |-> FALSE, val |-> 0, rest |-> s]
         ELSE The({IF r.val < from \/ r.val > to
                   THEN [ok |-> FALSE, val |-> 0, rest |-> s]
                   ELSE [ok |-> TRUE, val |-> r.val, rest |-> Drop(q, r.pos - 1)] :
                      r \in {MoreDigits(q, 2, DigitVal(q[1]), n - 1, to)}}) :
            q \in {Drop(s, Span(s, {" "}))}})

ConvRange(item) ==
    CASE item = "%y" -> [from |-> 0, to |-> 99, n |-> 2]
      [] item = "%Y" -> [from |-> 0, to |-> 9999, n |-> 4]
      [] item = "%m" -> [from |-> 1, to |-> 12, n |-> 2]
      [] item = "%d" -> [from |-> 1, to |-> 31, n |-> 2]
      [] item = "%H" -> [from |-> 0, to |-> 23, n |-> 2]
      [] item = "%M" -> [from |-> 0, to |-> 59, n |-> 2]
      [] item = "%S" -> [from |-> 0, to |-> 61, n |-> 2]

ConvStore(item, val, tm) ==
    CASE item = "%y" -> [tm EXCEPT !.tm_year = IF val >= 69 THEN val ELSE val + 100]
      [] item = "%Y" -> [tm EXCEPT !.tm_year = val - 1900]
      [] item = "%m" -> [tm EXCEPT !.tm_mon = val - 1]
      [] item = "%d" -> [tm EXCEPT !.tm_mday = val]
      [] item = "%H" -> [tm EXCEPT !.tm_hour = val]
      [] item = "%M" -> [tm EXCEPT !.tm_min = val]
      [] item = "%S" -> [tm EXCEPT !.tm_sec = val]

IsConv(item) == item \in {"%y", "%Y", "%m", "%d", "%H", "%M", "%S"}

RECURSIVE strptime_from(_, _, _, _)
strptime_from(s0, fmt, i, tm0) ==
    The({IF i > Len(fmt) THEN [ok |-> TRUE, rest |-> s, tm |-> tm]
         ELSE IF fmt[i] = " "
         THEN strptime_from(Drop(s, Span(s, SpaceChars)), fmt, i + 1, tm)
         ELSE IF IsConv(fmt[i])
         THEN The({IF ~g.ok THEN [ok |-> FALSE, rest |-> s, tm |-> tm]
                   ELSE strptime_from(g.rest, fmt, i + 1,
                                      ConvStore(fmt[i], g.val, tm)) :
                      g \in {get_number(s, ConvRange(fmt[i]).from,
                                        ConvRange(fmt[i]).to, ConvRange(fmt[i]).n)}})
         ELSE IF s # <<>> /\ s[1] = fmt[i]
         THEN strptime_from(Drop(s, 1), fmt, i + 1, tm)
         ELSE [ok |-> FALSE, rest |-> s, tm |-> tm] :
            s \in {s0}, tm \in {tm0}})

strptime(s, fmt, tm) == strptime_from(s, fmt, 1, tm)

(***************************************************************************)
(* parse_timestamp                                                         *)
(***************************************************************************)
ENOMEM == 12

day_nr == <<
    [name |-> <<"S", "u", "n", "d", "a", "y">>,                    nr |-> 0],
    [name |-> <<"S", "u", "n">>,                                   nr |-> 0],
    [name |-> <<"M", "o", "n", "d", "a", "y">>,                    nr |-> 1],
    [name |-> <<"M", "o", "n">>,                                   nr |-> 1],
    [name |-> <<"T", "u", "e", "s", "d", "a", "y">>,               nr |-> 2],
    [name |-> <<"T", "u", "e">>,                                   nr |-> 2],
    [name |-> <<"W", "e", "d", "n", "e", "s", "d", "a", "y">>,     nr |-> 3],
    [name |-> <<"W", "e", "d">>,                                   nr |-> 3],
    [name |-> <<"T", "h", "u", "r", "s", "d", "a", "y">>,          nr |-> 4],
    [name |-> <<"T", "h", "u">>,                                   nr |-> 4],
    [name |-> <<"F", "r", "i", "d", "a", "y">>,                    nr |-> 5],
    [name |-> <<"F", "r", "i">>,                                   nr |-> 5],
    [name |-> <<"S", "a", "t", "u", "r", "d", "a", "y">>,          nr |-> 6],
    [name |-> <<"S", "a", "t">>,                                   nr |-> 6]
>>

\* the absolute-date grammars in the order tried, with the fields each one
\* clears after a match: "sec" (tm_sec = 0), "time" (tm_sec = tm_min =
\* tm_hour = 0) or "none"
grammars == <<
    [fmt |-> <<"%y", "-", "%m", "-", "%d", " ", "%H", ":", "%M", ":", "%S">>,
     clear |-> "none"],
    [fmt |-> <<"%Y", "-", "%m", "-", "%d", " ", "%H", ":", "%M", ":", "%S">>,
     clear |-> "none"],
    [fmt |-> <<"%y", "-", "%m", "-", "%d", " ", "%H", ":", "%M">>,
     clear |-> "sec"],
    [fmt |-> <<"%Y", "-", "%m", "-", "%d", " ", "%H", ":", "%M">>,
     clear |-> "sec"],
    [fmt |-> <<"%y", "-", "%m", "-", "%d">>,
     clear |-> "time"],
    [fmt |-> <<"%Y", "-", "%m", "-", "%d">>,
     clear |-> "time"],
    [fmt |-> <<"%H", ":", "%M", ":", "%S">>,
     clear |-> "none"],
    [fmt |-> <<"%H", ":", "%M">>,
     clear |-> "sec"],
    [fmt |-> <<"%Y", "%m", "%d", "%H", "%M", "%S">>,
     clear |-> "sec"]
>>

\* a variant of Accepts without the *k == 0 test
AcceptsPrefix(t, g, copy) == strptime(t, grammars[g].fmt, copy).ok

\* if (k && *k == 0): the grammar consumed the whole text
Accepts(t, g, copy) ==
    The({k.ok /\ k.rest = <<>> : k \in {strptime(t, grammars[g].fmt, copy)}})

ClearFields(tm, clear) ==
    CASE clear = "none" -> tm
      [] clear = "sec"  -> [tm EXCEPT !.tm_sec = 0]
      [] clear = "time" -> [tm EXCEPT !.tm_sec = 0, !.tm_min = 0, !.tm_hour = 0]

\* the weekday-prefix loop: the first day_nr row whose name starts t, in any
\* letter case, and is followed by a space; 0 when there is none
WeekdayRow(t) ==
    The({IF hits = {} THEN 0 ELSE Min(hits) :
            hits \in {{i \in 1..Len(day_nr) :
                          /\ startswith_no_case(t, day_nr[i].name)
                          /\ Len(t) > Len(day_nr[i].name)
                          /\ t[Len(day_nr[i].name) + 1] = " "}}})

\* a variant of Offset that subtracts without the ret > minus test
OffsetWrapping(x, plus, minus) ==
    U64(Add(U64(Add(U64(Mul(ToUsecT(x), USEC_PER_SEC)), plus)), Sub(Two64, minus)))

\* ret = (usec_t) x * USEC_PER_SEC; ret += plus;
\* if (ret > minus) ret -= minus; else ret = 0;
Offset(x, plus, minus) ==
    The({IF Less(minus, ret) THEN Sub(ret, minus) ELSE Zero :
            ret \in {U64(Add(U64(Mul(ToUsecT(x), USEC_PER_SEC)), plus))}})

\* a variant of WeekdayMismatch that never reports a mismatch
WeekdayIgnored(weekday, wday) == FALSE

\* weekday >= 0 && tm.tm_wday != weekday
WeekdayMismatch(weekday, wday) == weekday >= 0 /\ wday # weekday

\* the finish: label.  path and gram record the branch taken; seed is the
\* broken-down time handed to mktime
finish(tm0, plus, minus, weekday, path, gram, usec) ==
    The({The({[rc |-> IF IsMinusOne(x) \/ WeekdayMismatch(weekday, wday)
                      THEN 0 - EINVAL ELSE 0,
               usec |-> IF IsMinusOne(x) \/ WeekdayMismatch(weekday, wday)
                        THEN usec ELSE Offset(x, plus, minus),
               path |-> path, gram |-> gram, weekday |-> weekday,
               seed |-> tm, x |-> x, wday |-> wday] :
                x \in {mktime_x(tm)}, wday \in {mktime_tm(tm).tm_wday}}) :
            tm \in {tm0}})

\* an error return before the finish: label
early(rc, usec, tm, path) ==
    [rc |-> rc, usec |-> usec, path |-> path, gram |-> 0, weekday |-> -1,
     seed |-> tm, x |-> TimeT(0, 0), wday |-> -1]

\* the first grammar that consumes all of t, 0 when none does
FirstGrammar(t, copy) ==
    The({IF hits = {} THEN 0 ELSE Min(hits) :
            hits \in {{g \in 1..Len(grammars) : Accepts(t, g, copy)}}})

\* the grammars, tried in order on the text after the weekday prefix
absolute_date(t, weekday, tm, usec) ==
    The({IF g = 0
         THEN [early(0 - EINVAL, usec, tm, "none") EXCEPT !.weekday = weekday]
         ELSE finish(ClearFields(strptime(t, grammars[g].fmt, tm).tm,
                                 grammars[g].clear),
                     Zero, Zero, weekday, "grammar", g, usec) :
            g \in {FirstGrammar(t, tm)}})

\* the part of parse_timestamp after the keyword and relative forms: the
\* weekday prefix, if any, is skipped and its number kept
absolute(t, tm, usec) ==
    The({absolute_date(IF row = 0 THEN t ELSE Drop(t, Len(day_nr[row].name) + 1),
                       IF row = 0 THEN -1 ELSE day_nr[row].nr, tm, usec) :
            row \in {WeekdayRow(t)}})

\* tm_sec = tm_min = tm_hour = 0 on the day d days from tm's
midnight(tm, d) ==
    [tm EXCEPT !.tm_mday = tm.tm_mday + d, !.tm_sec = 0, !.tm_min = 0,
               !.tm_hour = 0]

\* r = parse_sec(...); if (r < 0) return r; goto finish; the duration goes
\* to plus ("+D") or to minus ("-D", "D ago")
relative(r0, tm, path, usec) ==
    The({IF r.rc < 0 THEN early(r.rc, usec, tm, path)
         ELSE finish(tm, IF path = "plus" THEN r.usec ELSE Zero,
                     IF path = "plus" THEN Zero ELSE r.usec, -1, path, 0, usec) :
            r \in {r0}})

\* parse_timestamp(t, usec) called at the instant now (a time_t); usec is
\* the caller's *usec before the call, oom whether strndup fails
parse_timestamp(t, now, usec, oom) ==
    The({IF t = <<"n", "o", "w">>
         THEN finish(tm, Zero, Zero, -1, "now", 0, usec)
         ELSE IF t = <<"t", "o", "d", "a", "y">>
         THEN finish(midnight(tm, 0), Zero, Zero, -1, "today", 0, usec)
         ELSE IF t = <<"y", "e", "s", "t", "e", "r", "d", "a", "y">>
         THEN finish(midnight(tm, -1), Zero, Zero, -1, "yesterday", 0, usec)
         ELSE IF t = <<"t", "o", "m", "o", "r", "r", "o", "w">>
         THEN finish(midnight(tm, 1), Zero, Zero, -1, "tomorrow", 0, usec)
         ELSE IF t # <<>> /\ t[1] = "+"
         THEN relative(parse_sec(Drop(t, 1), Zero), tm, "plus", usec)
         ELSE IF t # <<>> /\ t[1] = "-"
         THEN relative(parse_sec(Drop(t, 1), Zero), tm, "minus", usec)
         ELSE IF endswith(t, <<" ", "a", "g", "o">>)
         THEN IF oom THEN early(0 - ENOMEM, usec, tm, "ago")
              ELSE relative(parse_sec(Take(t, Len(t) - 4), Zero), tm, "ago", usec)
         ELSE absolute(t, tm, usec) :
            tm \in {[localtime_r(now) EXCEPT !.tm_isdst = -1]}})


(***************************************************************************)
(* format_iso_time.  flags is the set of ISO_8601_* bits that are set.     *)
(* The buffer is [out, nul]: the characters stored from buf[0] on, and     *)
(* whether a terminating NUL follows them.  st.bufsz is the remaining      *)
(* capacity and st.rc the return value once a step has failed.             *)
(***************************************************************************)
Max(a, b) == IF a >= b THEN a ELSE b

\* number of decimal digits of 0 <= n < 10^9
NumDigits(n) == CHOOSE k \in 1..9 : n < 10^k /\ (k = 1 \/ n >= 10^(k - 1))

\* printf("%<w>d") with blanks (pad = " ") or zeros (pad = "0") on the left
DecStr(n, w, pad) ==
    LET k     == NumDigits(n)
        width == Max(w, k)
    IN  [i \in 1..width |->
            IF i <= width - k THEN pad
            ELSE DigitChars[((n \div 10^(width - i)) % 10) + 1]]

\* a variant of DateText that prints tm_mon without the + 1
DateTextMonthFromZero(tm) ==
    DecStr(tm.tm_year + 1900, 4, " ") \o <<"-">> \o DecStr(tm.tm_mon, 2, "0")
        \o <<"-">> \o DecStr(tm.tm_mday, 2, "0")

\* "%4d-%.2d-%.2d"
DateText(tm) ==
    DecStr(tm.tm_year + 1900, 4, " ") \o <<"-">> \o DecStr(tm.tm_mon + 1, 2, "0")
        \o <<"-">> \o DecStr(tm.tm_mday, 2, "0")

\* "%02d:%02d:%02d"
TimeText(tm) ==
    DecStr(tm.tm_hour, 2, "0") \o <<":">> \o DecStr(tm.tm_min, 2, "0")
        \o <<":">> \o DecStr(tm.tm_sec, 2, "0")

\* ".%06ld" or ",%06ld"
UsecText(mark, usec) == <<mark>> \o DecStr(usec, 6, "0")

\* strftime "%z" in the zone of the model
ZoneText == <<"+", "0", "0", "0", "0">>

\* if (len < 0 || (size_t) len > bufsz) return -1;
TooLong(len, bufsz) == len > bufsz

\* len = snprintf(p, bufsz, ...); check; bufsz -= len; p += len;
\* snprintf stores at most bufsz - 1 characters and a NUL, and returns the
\* full length
snprintf_step(st0, when, str) ==
    The({IF ~when \/ st.rc # 0 THEN st
         ELSE [st EXCEPT
                 !.out = IF st.bufsz = 0 THEN st.out
                         ELSE st.out \o Take(str, IF Len(str) < st.bufsz
                                                  THEN Len(str)
                                                  ELSE st.bufsz - 1),
                 !.nul = st.bufsz # 0 \/ st.nul,
                 !.rc = IF TooLong(Len(str), st.bufsz) THEN -1 ELSE 0,
                 !.bufsz = IF TooLong(Len(str), st.bufsz) THEN st.bufsz
                           ELSE st.bufsz - Len(str)] :
            st \in {st0}})

\* if (bufsz < 1) return -1; *p++ = sep; bufsz--;
separator_step(st0, when, sep) ==
    The({IF ~when \/ st.rc # 0 THEN st
         ELSE IF st.bufsz < 1 THEN [st EXCEPT !.rc = -1]
         ELSE [st EXCEPT !.out = st.out \o <<sep>>, !.nul = FALSE,
                         !.bufsz = st.bufsz - 1] :
            st \in {st0}})

\* if (strftime(p, bufsz, "%z", tm) <= 0) return -1;
\* strftime stores the text and a NUL only when both fit, else returns 0
strftime_step(st0, when, str) ==
    The({IF ~when \/ st.rc # 0 THEN st
         ELSE IF Len(str) + 1 > st.bufsz THEN [st EXCEPT !.rc = -1]
         ELSE [st EXCEPT !.out = st.out \o str, !.nul = TRUE] :
            st \in {st0}})

format_iso_time(tm0, usec, flags, bufsz) ==
    The({LET st0 == [out |-> <<>>, nul |-> FALSE, bufsz |-> bufsz, rc |-> 0]
             st1 == snprintf_step(st0, "DATE" \in flags, DateText(tm))
             st2 == separator_step(st1, "DATE" \in flags /\ "TIME" \in flags,
                                   IF "SPACE" \in flags THEN " " ELSE "T")
             st3 == snprintf_step(st2, "TIME" \in flags, TimeText(tm))
             st4 == snprintf_step(st3, "DOTUSEC" \in flags, UsecText(".", usec))
             st5 == snprintf_step(st4, "DOTUSEC" \notin flags
                                           /\ "COMMAUSEC" \in flags,
                                  UsecText(",", usec))
         IN  strftime_step(st5, "TIMEZONE" \in flags, ZoneText) :
            tm \in {tm0}})

\* strtimeval_iso: tv = [tv_sec, tv_usec]; gmtime and localtime agree in
\* the zone of the model.  strtime_iso and strtm_iso are the same call
\* with usec = 0.
strtimeval_iso(tv, flags, bufsz) ==
    The({[rc |-> st.rc, out |-> st.out, nul |-> st.nul] :
            st \in {format_iso_time(localtime_r(tv.tv_sec), tv.tv_usec, flags,
                                    bufsz)}})

(***************************************************************************)
(* The callers' inputs.  A duration term is <lead><int>[.<frac>]<gap><unit>*)
(* with int and frac strings of digits, lead and gap white space and unit  *)
(* a suffix of table; a call on a text built from terms keeps the terms.   *)
(***************************************************************************)
UnitRow(suffix) == CHOOSE i \in 1..Len(table) : table[i].suffix = suffix

Term(lead, int, frac, gap, suffix) ==
    [lead |-> lead, int |-> int, frac |-> frac, gap |-> gap, unit |-> UnitRow(suffix)]

TermText(tr) ==
    tr.lead \o tr.int \o (IF tr.frac = <<>> THEN <<>> ELSE <<".">> \o tr.frac)
        \o tr.gap \o table[tr.unit].suffix

RECURSIVE TermsText(_)
TermsText(ts) == IF ts = <<>> THEN <<>> ELSE TermText(Head(ts)) \o TermsText(Tail(ts))

\* a term without a unit needs white space before the next term
Separated(ts) ==
    \A i \in 1..(Len(ts) - 1) :
        table[ts[i].unit].suffix = <<>> => ts[i].gap # <<>> \/ ts[i + 1].lead # <<>>

SingleTerms ==
    {[lead |-> <<>>, int |-> i, frac |-> f, gap |-> g, unit |-> u] :
        i \in {<<"1">>, <<"9", "0">>, <<"0", "0", "7">>}, f \in {<<>>, <<"5">>, <<"0", "5">>, <<"9", "9", "9", "9", "9", "9">>},
        g \in {<<>>, <<" ">>}, u \in 1..Len(table)}

SmallTerms ==
    { Term(<<>>, <<"1">>, <<>>, <<>>, <<"m">>),
      Term(<<" ">>, <<"3", "0">>, <<>>, <<>>, <<"s">>),
      Term(<<>>, <<"1">>, <<"5">>, <<>>, <<"h">>),
      Term(<<" ">>, <<"1", "0", "0">>, <<>>, <<>>, <<>>),
      Term(<<>>, <<"5">>, <<>>, <<>>, <<"m", "i", "n">>),
      Term(<<>>, <<"0">>, <<>>, <<" ">>, <<"d", "a", "y", "s">>) }

\* terms at the edge of the 64-bit range
BigTerms ==
    { Term(<<>>, <<"1", "8", "4", "4", "6", "7", "4", "4", "0", "7", "3", "7", "0", "9">>, <<>>, <<>>, <<"s">>),
      Term(<<>>, <<"1", "8", "4", "4", "6", "7", "4", "4", "0", "7", "3", "7", "1", "0">>, <<>>, <<>>, <<"s">>),
      Term(<<>>, <<"9", "2", "2", "3", "3", "7", "2", "0", "3", "6", "8", "5", "4", "7", "7", "5", "8", "0", "7">>, <<>>, <<>>, <<"y">>),
      Term(<<>>, <<"9", "2", "2", "3", "3", "7", "2", "0", "3", "6", "8", "5", "4", "7", "7", "5", "8", "0", "8">>, <<>>, <<>>, <<"u", "s">>),
      Term(<<>>, <<"1">>, <<"9", "9", "9", "9", "9", "9", "9", "9", "9", "9", "9", "9", "9", "9", "9", "9", "9">>, <<>>, <<"s">>),
      Term(<<>>, <<"1">>, <<"9", "9", "9", "9", "9", "9", "9", "9", "9", "9", "9", "9", "9", "9", "9", "9", "9", "9", "9", "9">>, <<>>, <<"s">>) }

TermSeqs(T, n) == {ts \in [1..n -> T] : Separated(ts)}

SecTermSeqs ==
    {<<t>> : t \in SingleTerms \cup SmallTerms \cup BigTerms}
        \cup UNION {TermSeqs(SmallTerms \cup BigTerms, n) : n \in 2..MaxTerms}

RawSecTexts ==
    { <<"+", "5", "s">>, <<"-", "5", "s">>, <<".", "5", "s">>, <<"-", "0", "s">>, <<"s">>, <<"5", "x">>, <<>>, <<" ", " ">>, <<"1", ".", "s">>, <<"1", ".", "5", ".", "5", "s">>,
      <<"1", ".", " ", "5", "s">>, <<"+", ".", "5", "s">>, <<" ", "+", "1", "m">>, <<"1", "m", " ", "-", "3", "0", "s">>, <<"1", "m", " ", "+", "3", "0", "s">>, <<"-", " ", "5", "s">>, <<"5", " ", "s", " ", "x">> }

SecInputs ==
    {[form |-> "terms", text |-> TermsText(ts), terms |-> ts] : ts \in SecTermSeqs}
        \cup {[form |-> "raw", text |-> r, terms |-> <<>>] : r \in RawSecTexts}

\* values of the caller's *usec before a call
Usec0s == {Zero, FromNat(4242)}

\* values of time(NULL): 1970-01-01 00:01:40 and 2012-09-22 16:34:22
Nows == {TimeT(0, 100), TimeT(15605, 59662)}

Keywords == {<<"n", "o", "w">>, <<"t", "o", "d", "a", "y">>, <<"y", "e", "s", "t", "e", "r", "d", "a", "y">>, <<"t", "o", "m", "o", "r", "r", "o", "w">>}

RelTermSeqs ==
    {<<t>> : t \in SmallTerms} \cup UNION {TermSeqs(SmallTerms, n) : n \in 2..MaxTerms}

Durations ==
    {[text |-> TermsText(ts), terms |-> ts] : ts \in RelTermSeqs}
        \cup {[text |-> r, terms |-> <<>>] :
                r \in {<<"+", "5", "m", "i", "n">>, <<"-", "5", "m", "i", "n">>, <<"5", "x">>, <<>>, <<"5", "m", "i", "n", " ", "a", "g", "o">>, <<" ", "+", "1", "h">>, <<"+", "0", "s">>,
                       <<".", "5", "s">>, <<"1", "8", "4", "4", "6", "7", "4", "4", "0", "7", "3", "7", "1", "0", "s">>}}

RelText(form, d) ==
    CASE form = "plus"  -> <<"+">> \o d
      [] form = "minus" -> <<"-">> \o d
      [] form = "ago"   -> d \o <<" ", "a", "g", "o">>

TsInput(form, text, dur, terms, wd, rest) ==
    [form |-> form, text |-> text, dur |-> dur, terms |-> terms, wd |-> wd,
     rest |-> rest]

LowerCase(s) == [i \in 1..Len(s) |-> ToLower(s[i])]

\* the weekday names with the number the claim gives them, 0 = Sunday
WeekdayNames ==
    {[name |-> day_nr[i].name, nr |-> (i - 1) \div 2] : i \in 1..Len(day_nr)}
        \cup {[name |-> LowerCase(day_nr[i].name), nr |-> (i - 1) \div 2] :
                i \in 1..Len(day_nr)}
        \cup {[name |-> <<"S", "A", "T">>, nr |-> 6], [name |-> <<"m", "O", "N", "D", "A", "Y">>, nr |-> 1]}

\* texts an absolute-date grammar matches
DateTexts ==
    { <<"2", "0", "1", "2", "-", "0", "9", "-", "2", "2">>, <<"1", "2", "-", "0", "9", "-", "2", "2", " ", "1", "6", ":", "3", "4">>, <<"2", "0", "1", "2", "-", "0", "9", "-", "2", "4", " ", "1", "0", ":", "0", "0", ":", "0", "0">>, <<"1", "6", ":", "3", "4">>,
      <<"1", "6", ":", "3", "4", ":", "2", "2">>, <<"1", "9", "6", "9", "-", "1", "2", "-", "3", "1", " ", "2", "3", ":", "5", "9", ":", "5", "9">>, <<"2", "0", "1", "2", "-", "0", "2", "-", "3", "1">>, <<"2", "0", "1", "2", "0", "9", "2", "2", "1", "6", "3", "4", "2", "2">>,
      <<"1", "2", "-", "0", "9", "-", "2", "2", " ", "1", "6", ":", "3", "4", ":", "2", "2">>, <<"2", "0", "1", "2", "-", "0", "9", "-", "2", "2", " ", "1", "6", ":", "3", "4">> }

Extras == {<<"x">>, <<" ">>, <<"0">>, <<":">>, <<":", "0", "7">>, <<" ", "1", "0", ":", "0", "0">>, <<" ", "a", "g", "o", " ">>}

TsInputs ==
    {TsInput("keyword", k, <<>>, <<>>, -1, <<>>) : k \in Keywords}
        \cup {TsInput(f, RelText(f, d.text), d.text, d.terms, -1, <<>>) :
                f \in {"plus", "minus", "ago"}, d \in Durations}
        \cup {TsInput("date", d, <<>>, <<>>, -1, d) : d \in DateTexts}
        \cup {TsInput("weekday", w.name \o <<" ">> \o d, <<>>, <<>>, w.nr, d) :
                w \in WeekdayNames, d \in DateTexts}
        \cup {TsInput("extra", d \o x, <<>>, <<>>, -1, d \o x) :
                d \in DateTexts, x \in Extras}
        \cup {TsInput("date", d, <<>>, <<>>, -1, d) :
                d \in {<<"x", "y", "z">>, <<"S", "a", "t">>, <<"2", "0", "1", "2", "-", "1", "3", "-", "0", "1">>, <<"2", "4", ":", "0", "0">>, <<"S", "a", "t", ".", " ", "2", "0", "1", "2", "-", "0", "9", "-", "2", "2">>}}

FlagSets ==
    { {}, {"DATE"}, {"TIME"}, {"DATE", "TIME"}, {"DATE", "TIME", "SPACE"},
      {"DATE", "TIME", "DOTUSEC"}, {"DATE", "TIME", "COMMAUSEC", "TIMEZONE"},
      {"DATE", "TIME", "SPACE", "DOTUSEC", "TIMEZONE"}, {"TIME", "TIMEZONE"},
      {"DATE", "GMTIME"}, {"DOTUSEC", "COMMAUSEC"}, {"TIMEZONE"} }

\* the last day of year 9999 is day LastDay4 of the epoch
LastDay4 == days_from_civil(9999, 12, 31)

\* days spread over 1970..9999, the first day of year 10000 and a leap day
SampleDays ==
    {(k * 293291) % (LastDay4 + 1) : k \in 0..MaxDaySamples}
        \cup {LastDay4, LastDay4 + 1, days_from_civil(2012, 2, 29)}

FormatInput(t, usec, flags, bufsz) ==
    [tv |-> [tv_sec |-> t, tv_usec |-> usec], flags |-> flags, bufsz |-> bufsz]

FormatInputs ==
    {FormatInput(t, 5, f, n) :
        t \in {TimeT(15605, 59662), TimeT(LastDay4 + 1, 0)}, f \in FlagSets,
        n \in 0..MaxBufsz}
        \cup {FormatInput(TimeT(d, s), 0, f, MaxBufsz) :
                d \in SampleDays, s \in {0, 59662, SecsPerDay - 1},
                f \in {{"DATE", "TIME"}, {"DATE", "TIME", "SPACE"}}}

(***************************************************************************)
(* The state machine: a caller makes one call on the library, possibly a   *)
(* second one on the outcome of the first, and returns.                    *)
(*   pc     where the caller is: "idle", "done", "twin" or "reparsed"      *)
(*   call   the call made: the operation and its arguments                 *)
(*   now    time(NULL) at the call                                         *)
(*   usec0  the caller's *usec before the call, usec after it              *)
(*   ret    what the call returned (rc) and the branch it took             *)
(*   buf    the caller's buffer: the characters stored and whether a NUL   *)
(*          follows them                                                   *)
(*   ret2, usec2  the same for the second call                             *)
(***************************************************************************)
VARIABLES pc, call, now, usec0, usec, ret, buf, ret2, usec2

vars == <<pc, call, now, usec0, usec, ret, buf, ret2, usec2>>

NoCall ==
    [op |-> "none", form |-> "none", text |-> <<>>, dur |-> <<>>, terms |-> <<>>,
     wd |-> -1, rest |-> <<>>, oom |-> FALSE,
     tv |-> [tv_sec |-> TimeT(0, 0), tv_usec |-> 0], flags |-> {}, bufsz |-> 0]

NoRet == [rc |-> 0]

NoBuf == [out |-> <<>>, nul |-> FALSE]

Init ==
    /\ pc = "idle"
    /\ call = NoCall
    /\ now = TimeT(0, 0)
    /\ usec0 = Zero
    /\ usec = Zero
    /\ ret = NoRet
    /\ buf = NoBuf
    /\ ret2 = NoRet
    /\ usec2 = Zero

\* r = parse_sec(t, &usec)
ParseSecCall ==
    /\ pc = "idle"
    /\ \E in \in SecInputs, u0 \in Usec0s :
          \E r \in {parse_sec(in.text, u0)} :
              /\ call' = [NoCall EXCEPT !.op = "parse_sec", !.form = in.form,
                                        !.text = in.text, !.terms = in.terms]
              /\ usec0' = u0
              /\ usec' = r.usec
              /\ ret' = r
    /\ pc' = "done"
    /\ UNCHANGED <<now, buf, ret2, usec2>>

\* r = parse_timestamp(t, &usec)
ParseTimestampCall ==
    /\ pc = "idle"
    /\ \E in \in TsInputs, t \in Nows, u0 \in Usec0s, oom \in BOOLEAN :
          /\ oom => in.form = "ago"
          /\ \E r \in {parse_timestamp(in.text, t, u0, oom)} :
              /\ call' = [NoCall EXCEPT !.op = "parse_timestamp", !.form = in.form,
                                        !.text = in.text, !.dur = in.dur,
                                        !.terms = in.terms, !.wd = in.wd,
                                        !.rest = in.rest, !.oom = oom]
              /\ now' = t
              /\ usec0' = u0
              /\ usec' = r.usec
              /\ ret' = r
    /\ pc' = "done"
    /\ UNCHANGED <<buf, ret2, usec2>>

\* after parse_timestamp("D ago"), parse_timestamp("-D") at the same instant
TwinMinusCall ==
    /\ pc = "done"
    /\ call.op = "parse_timestamp"
    /\ call.form = "ago"
    /\ ~call.oom
    /\ \E r \in {parse_timestamp(<<"-">> \o call.dur, now, usec0, FALSE)} :
           /\ ret2' = r
           /\ usec2' = r.usec
    /\ pc' = "twin"
    /\ UNCHANGED <<call, now, usec0, usec, ret, buf>>

\* r = strtimeval_iso(&tv, flags, buf, bufsz)
FormatCall ==
    /\ pc = "idle"
    /\ \E in \in FormatInputs :
          \E r \in {strtimeval_iso(in.tv, in.flags, in.bufsz)} :
              /\ call' = [NoCall EXCEPT !.op = "format", !.tv = in.tv,
                                        !.flags = in.flags, !.bufsz = in.bufsz]
              /\ ret' = [rc |-> r.rc]
              /\ buf' = [out |-> r.out, nul |-> r.nul]
    /\ pc' = "done"
    /\ UNCHANGED <<now, usec0, usec, ret2, usec2>>

\* after a successful format, parse_timestamp(buf, &usec2)
ReparseCall ==
    /\ pc = "done"
    /\ call.op = "format"
    /\ ret.rc = 0
    /\ buf.nul
    /\ \E t \in Nows, u0 \in Usec0s :
          \E r \in {parse_timestamp(buf.out, t, u0, FALSE)} :
              /\ now' = t
              /\ usec0' = u0
              /\ ret2' = r
              /\ usec2' = r.usec
    /\ pc' = "reparsed"
    /\ UNCHANGED <<call, usec, ret, buf>>

Return ==
    /\ pc \in {"done", "twin", "reparsed"}
    /\ pc' = "idle"
    /\ call' = NoCall
    /\ now' = TimeT(0, 0)
    /\ usec0' = Zero
    /\ usec' = Zero
    /\ ret' = NoRet
    /\ buf' = NoBuf
    /\ ret2' = NoRet
    /\ usec2' = Zero

Next ==
    \/ ParseSecCall
    \/ ParseTimestampCall
    \/ TwinMinusCall
    \/ FormatCall
    \/ ReparseCall
    \/ Return

Spec == Init /\ [][Next]_vars

(***************************************************************************)
(* Exact values, computed without the 64-bit type.                         *)
(***************************************************************************)
TermInt(tr) == FromDigits(DigitSeq(tr.int))

TermFrac(tr) == FromDigits(DigitSeq(tr.frac))

\* int*unit + floor(frac*unit / 10^digits)
TermValue(tr) ==
    Add(Mul(TermInt(tr), table[tr.unit].usec),
        DivTen(Mul(TermFrac(tr), table[tr.unit].usec), Len(tr.frac)))

\* the sum of the first n terms
RECURSIVE ExactSum(_, _)
ExactSum(ts, n) ==
    IF n = 0 THEN Zero ELSE Add(ExactSum(ts, n - 1), TermValue(ts[n]))

Magnitude(ts) == ExactSum(ts, Len(ts))

\* a product or a running total of the terms does not fit 64 bits
Overflows(ts) ==
    \E n \in 1..Len(ts) :
        \/ ~FitsU64(Mul(TermInt(ts[n]), table[ts[n].unit].usec))
        \/ ~FitsU64(Mul(TermFrac(ts[n]), table[ts[n].unit].usec))
        \/ ~FitsU64(ExactSum(ts, n))

\* every integer and fraction fits a long long and nothing overflows
InRange(ts) ==
    /\ \A n \in 1..Len(ts) :
          LessEq(TermInt(ts[n]), LLONG_MAX) /\ LessEq(TermFrac(ts[n]), LLONG_MAX)
    /\ ~Overflows(ts)

\* a non-negative time_t in microseconds
InstantUsec(x) ==
    Mul(Add(MulSmall(FromNat(x.day), SecsPerDay), FromNat(x.sod)), FromNat(1000000))

SameCalendar(a, b) ==
    \A f \in {"tm_year", "tm_mon", "tm_mday", "tm_hour", "tm_min", "tm_sec"} :
        a[f] = b[f]

ParsedSec == pc = "done" /\ call.op = "parse_sec"

ParsedTimestamp == pc = "done" /\ call.op = "parse_timestamp"

Formatted == pc = "done" /\ call.op = "format"

\* C1: parse_sec on a text made of <int>[.<frac>]<unit> terms whose integers,
\* fractions, products and running total stay in range succeeds, and the
\* result is the exact sum of int*unit + floor(frac*unit / 10^digits) over
\* the terms, each with the unit it names.
C1_SumOfTerms ==
    (ParsedSec /\ call.form = "terms" /\ InRange(call.terms))
        => ret.rc = 0 /\ usec = Magnitude(call.terms)

C1_Witness ==
    /\ ParsedSec
    /\ call.text = <<"1", "m", " ", "3", "0", "s">>
    /\ InRange(call.terms)
    /\ ret.rc = 0
    /\ usec = FromNat(90000000)

C3_OverflowIsError ==
    (ParsedSec /\ call.form = "terms" /\ Overflows(call.terms))
        => ret.rc = 0 - ERANGE

\* C4: on "<weekday name> <rest>" with rest matching a grammar, and mktime
\* not returning (time_t) -1, parse_timestamp succeeds exactly when the
\* weekday of the normalised date is the named one, and on a mismatch it
\* stores no instant.
C4_WeekdayChecked ==
    (ParsedTimestamp /\ call.form = "weekday")
        => /\ ret.path = "grammar"
           /\ ~IsMinusOne(ret.x)
                => /\ ret.rc = 0 <=> Weekday(ret.x.day) = call.wd
                   /\ ret.rc # 0 => ret.rc = 0 - EINVAL /\ usec = usec0

C4_Witness ==
    /\ ParsedTimestamp
    /\ call.form = "weekday"
    /\ call.text = <<"M", "o", "n", " ", "2", "0", "1", "2", "-", "0", "9", "-", "2", "2">>
    /\ Weekday(ret.x.day) = 6
    /\ ret.rc = 0 - EINVAL

\* C4 as stated: success exactly when the weekday of the normalised date is
\* the named one, whatever mktime returns.
C4_WeekdayIff ==
    (ParsedTimestamp /\ call.form = "weekday")
        => (ret.rc = 0 <=> Weekday(ret.x.day) = call.wd)

\* grammar g of parse_timestamp consumes all of t
ConsumesAll(t, g) ==
    LET k == strptime(t, grammars[g].fmt, localtime_r(now))
    IN  k.ok /\ k.rest = <<>>

\* grammar g matches a proper prefix of t
ConsumesPrefix(t, g) ==
    LET k == strptime(t, grammars[g].fmt, localtime_r(now))
    IN  k.ok /\ k.rest # <<>>

\* C5: the grammar parse_timestamp takes is the first one in the fixed
\* order that consumes the whole text; when none does, the call fails with
\* -EINVAL and stores no instant, even if a grammar matches a prefix.
C5_WholeTextOnly ==
    (ParsedTimestamp /\ call.form \in {"date", "weekday", "extra"})
        => LET whole == {g \in 1..Len(grammars) : ConsumesAll(call.rest, g)}
           IN  /\ whole = {}
                    => ret.rc = 0 - EINVAL /\ ret.gram = 0 /\ usec = usec0
               /\ whole # {} => ret.gram = Min(whole)

C5_Witness ==
    /\ ParsedTimestamp
    /\ call.text = <<"2", "0", "1", "2", "-", "0", "9", "-", "2", "2", "x">>
    /\ \E g \in 1..Len(grammars) : ConsumesPrefix(call.text, g)
    /\ ret.rc = 0 - EINVAL
    /\ usec = usec0

\* C6: parse_timestamp("D ago") and parse_timestamp("-D") at the same
\* instant both fail, or both succeed with the same instant.
C6_AgoIsMinus ==
    pc = "twin"
        => \/ ret.rc < 0 /\ ret2.rc < 0
           \/ ret.rc = 0 /\ ret2.rc = 0 /\ usec = usec2

\* C7: parse_sec fails when the first term, after white space, starts with
\* a sign, and fails with -EINVAL when it starts with any other character
\* that is not a digit.
C7_RejectsSignAndNoDigits ==
    ParsedSec
        => LET p == Drop(call.text, strspn(call.text))
           IN  /\ (p # <<>> /\ p[1] \in {"+", "-"}) => ret.rc < 0
               /\ (p # <<>> /\ ~IsDigit(p[1]) /\ p[1] \notin {"+", "-"})
                    => ret.rc = 0 - EINVAL

\* C8: in the years up to 9999, the text format_iso_time renders under the
\* flags DATE, TIME and SPACE, in a buffer that holds it, is parsed by
\* parse_timestamp with the "%Y-%m-%d %H:%M:%S" grammar back to the
\* instant rendered.
C8_RoundTripSpace ==
    (pc = "reparsed" /\ call.flags = {"DATE", "TIME", "SPACE"} /\ call.bufsz >= 20
            /\ call.tv.tv_sec.day <= LastDay4)
        => /\ ret2.rc = 0
           /\ ret2.gram = 2
           /\ usec2 = InstantUsec(call.tv.tv_sec)

C8_Witness ==
    /\ pc = "reparsed"
    /\ call.flags = {"DATE", "TIME", "SPACE"}
    /\ call.tv.tv_sec = TimeT(LastDay4, SecsPerDay - 1)
    /\ buf.out = <<"9", "9", "9", "9", "-", "1", "2", "-", "3", "1", " ", "2", "3", ":", "5", "9", ":", "5", "9">>
    /\ ret2.rc = 0
    /\ usec2 = InstantUsec(call.tv.tv_sec)

\* C8 as stated: the text rendered under exactly the flags DATE and TIME is
\* parsed back to the instant rendered.
C8_RoundTrip ==
    (pc = "reparsed" /\ call.flags = {"DATE", "TIME"})
        => ret2.rc = 0 /\ usec2 = InstantUsec(call.tv.tv_sec)

\* C9: when parse_sec or parse_timestamp returns an error, the caller's
\* output value is the one it had before the call.
C9_FailureStoresNothing ==
    /\ (pc = "done" /\ call.op \in {"parse_sec", "parse_timestamp"} /\ ret.rc # 0)
            => ret.rc < 0 /\ usec = usec0
    /\ (pc \in {"twin", "reparsed"} /\ ret2.rc # 0)
            => ret2.rc < 0 /\ usec2 = usec0

C9_Witness ==
    /\ ParsedTimestamp
    /\ call.form = "ago"
    /\ ret.path = "ago"
    /\ ret.rc = 0 - EINVAL
    /\ usec0 = FromNat(4242)
    /\ usec = usec0

\* the complete rendering of every field the flags request
FullRendering(tv, flags) ==
    LET tm == localtime_r(tv.tv_sec)
    IN  (IF "DATE" \in flags THEN DateText(tm) ELSE <<>>)
            \o (IF "DATE" \in flags /\ "TIME" \in flags
                THEN (IF "SPACE" \in flags THEN <<" ">> ELSE <<"T">>) ELSE <<>>)
            \o (IF "TIME" \in flags THEN TimeText(tm) ELSE <<>>)
            \o (IF "DOTUSEC" \in flags THEN UsecText(".", tv.tv_usec)
                ELSE IF "COMMAUSEC" \in flags THEN UsecText(",", tv.tv_usec)
                ELSE <<>>)
            \o (IF "TIMEZONE" \in flags THEN ZoneText ELSE <<>>)

\* C10: for flags that request at least one field, format_iso_time
\* returns 0 only with the complete rendering and its NUL in the buffer,
\* and returns -1 whenever the capacity is less than the length of the
\* rendering plus one.
C10_NoTruncatedSuccess ==
    (Formatted /\ FullRendering(call.tv, call.flags) # <<>>)
        => LET full == FullRendering(call.tv, call.flags)
           IN  /\ ret.rc = 0 => buf.nul /\ buf.out = full
               /\ call.bufsz < Len(full) + 1 => ret.rc = -1

=============================================================================
